---- MODULE Spec2Model ----
(***************************************************************************)
(* A model of django_jinja/backend.py: the Jinja2 template backend for     *)
(* Django.  Four parts of the file are modelled:                           *)
(*   - Jinja2.get_default with its lru_cache and the setting_changed       *)
(*     receiver that clears it (sequentially and with racing threads);     *)
(*   - Jinja2.__init__, the resolution of the OPTIONS;                     *)
(*   - Jinja2.get_template / from_string / match_template;                 *)
(*   - Template.render, the assembly of the render context.                *)
(***************************************************************************)
EXTENDS Integers, Sequences, FiniteSets, TLC

VARIABLES
    engines,    \* django.template.engines.all(): the configured engines, in order
    cache,      \* the lru_cache of Jinja2.get_default (one entry, key ())
    last,       \* the most recent registry operation and what it returned
    pc,         \* per thread: where it is inside a get_default call
    local,      \* per thread: the value computed by the body, not yet stored
    notified,   \* TRUE iff the TEMPLATES receiver ran after the last change of engines
    settings,   \* django.conf.settings: DEBUG and USE_I18N
    sys_modules,\* sys.modules: the modules imported so far in the process
    built,      \* the Jinja2(params) call: its params and the adapter or the error
    cpCache,    \* the adapter's cached_property context_processors
    looked,     \* the most recent get_template / from_string call and its result
    rpc,        \* where the render call in progress is
    given,      \* render's context argument, as it was when render was called
    request,    \* render's request argument
    writes,     \* which dict render writes to: the caller's or a new one
    context,    \* the dict render is assembling
    callerDict, \* the caller's dict object, as it is now
    lazy,       \* the SimpleLazyObject stored under csrf_token
    tokenCalls, \* the calls of get_token made so far in this render call
    lazyReads,  \* the reads of the SimpleLazyObject so far in this render call
    idx,        \* the position of the loop over the context processors
    handed,     \* the context passed to the jinja2 template's render
    signalled,  \* whether template_rendered was sent in this render call
    rerr        \* the exception the render call raised

regVars == <<engines, cache, last, pc, local, notified>>

adapterVars == <<settings, sys_modules, built>>

lookupVars == <<looked>>

renderVars == <<cpCache, rpc, given, request, writes, context, callerDict, lazy,
                tokenCalls, lazyReads, idx, handed, signalled, rerr>>

vars == <<engines, cache, last, pc, local, notified, settings, sys_modules, built,
          cpCache, looked,
          rpc, given, request, writes, context, callerDict, lazy, tokenCalls,
          lazyReads, idx, handed, signalled, rerr>>

----------------------------------------------------------------------------
(* Bounds *)

MaxEngines == 2
MaxThreads == 2
MaxProcessors == 2
MaxReads == 2

----------------------------------------------------------------------------
(* The engine registry: Jinja2.get_default and _setting_changed *)

EngineClasses == {"Jinja2", "Jinja2Subclass", "DjangoTemplates"}

Aliases == 1..MaxEngines

Engine == [alias : Aliases, cls : EngineClasses]

NoEngine == [alias |-> 0, cls |-> "none"]

\* The lists engines.all() can return: one engine per alias of TEMPLATES.
EngineLists ==
    { es \in UNION { [1..n -> Engine] : n \in 0..MaxEngines } :
        \A i, j \in DOMAIN es : es[i].alias = es[j].alias => i = j }

SettingNames == {"TEMPLATES", "DEBUG", "INSTALLED_APPS"}

Threads == 1..MaxThreads

\* isinstance replaced by a test of the exact class.
isinstance_Jinja2_exact(engine) == engine.cls = "Jinja2"

\* isinstance(engine, Jinja2): true of the class and of its subclasses.
isinstance_Jinja2(engine) == engine.cls \in {"Jinja2", "Jinja2Subclass"}

Return(v) == [kind |-> "return", value |-> v, exc |-> "none", msg |-> "none"]

Raise(e, m) == [kind |-> "raise", value |-> NoEngine, exc |-> e, msg |-> m]

NoResult == [kind |-> "none", value |-> NoEngine, exc |-> "none", msg |-> "none"]

\* The body of get_default (the function lru_cache wraps).
get_default_body(es) ==
    LET jinja_engines == SelectSeq(es, isinstance_Jinja2)
    IN  IF Len(jinja_engines) = 1
        THEN Return(jinja_engines[1])
        ELSE IF Len(jinja_engines) = 0
        THEN Raise("ImproperlyConfigured", "No Jinja2 backend is configured.")
        ELSE Raise("ImproperlyConfigured",
                   "Several Jinja2 backends are configured. You must select one explicitly.")

EmptyCache == [full |-> FALSE, value |-> NoEngine]

\* lru_cache: the entry a finished call leaves.  A raising call stores
\* nothing; an entry another call stored meanwhile is kept.
cache_store(c, result) ==
    IF result.kind = "return" /\ ~c.full
    THEN [full |-> TRUE, value |-> result.value]
    ELSE c

\* cache_clear()
cache_clear(c) == EmptyCache

\* A receiver that does not look at the setting's name.
setting_changed_cache_any(c, setting) == cache_clear(c)

\* The receiver clears the cache for the TEMPLATES setting alone.
setting_changed_cache(c, setting) ==
    IF setting = "TEMPLATES" THEN cache_clear(c) ELSE c

\* A whole call of Jinja2.get_default(), no other thread running.
get_default ==
    /\ \A t \in Threads : pc[t] = "idle"
    /\ LET result == IF cache.full THEN Return(cache.value)
                     ELSE get_default_body(engines)
       IN  /\ cache' = cache_store(cache, result)
           /\ last' = [op |-> "get_default", hit |-> cache.full,
                       setting |-> "none", result |-> result]
    /\ UNCHANGED <<engines, pc, local, notified>>
    /\ UNCHANGED <<adapterVars, lookupVars, renderVars>>

\* The receiver of django.core.signals.setting_changed.
setting_changed(setting) ==
    /\ cache' = setting_changed_cache(cache, setting)
    /\ notified' = (notified \/ setting = "TEMPLATES")
    /\ last' = [op |-> "setting_changed", hit |-> FALSE,
                setting |-> setting, result |-> NoResult]
    /\ UNCHANGED <<engines, pc, local>>
    /\ UNCHANGED <<adapterVars, lookupVars, renderVars>>

\* The host's TEMPLATES change: engines.all() now returns another list.
ConfigureEngines(es) ==
    /\ es # engines
    /\ engines' = es
    /\ notified' = FALSE
    /\ last' = [op |-> "configure", hit |-> FALSE,
                setting |-> "none", result |-> NoResult]
    /\ UNCHANGED <<cache, pc, local>>
    /\ UNCHANGED <<adapterVars, lookupVars, renderVars>>

\* get_default in a thread, step 1: the wrapper looks the key up.
LookupStep(t) ==
    /\ pc[t] = "idle"
    /\ IF cache.full
       THEN /\ last' = [op |-> "get_default", hit |-> TRUE,
                        setting |-> "none", result |-> Return(cache.value)]
            /\ UNCHANGED pc
       ELSE /\ pc' = [pc EXCEPT ![t] = "miss"]
            /\ UNCHANGED last
    /\ UNCHANGED <<engines, cache, local, notified>>
    /\ UNCHANGED <<adapterVars, lookupVars, renderVars>>

\* step 2: the body runs, outside any lock, and reads engines.all().
BodyStep(t) ==
    /\ pc[t] = "miss"
    /\ LET result == get_default_body(engines)
       IN  IF result.kind = "raise"
           THEN /\ pc' = [pc EXCEPT ![t] = "idle"]
                /\ last' = [op |-> "get_default", hit |-> FALSE,
                            setting |-> "none", result |-> result]
                /\ UNCHANGED local
           ELSE /\ pc' = [pc EXCEPT ![t] = "computed"]
                /\ local' = [local EXCEPT ![t] = result.value]
                /\ UNCHANGED last
    /\ UNCHANGED <<engines, cache, notified>>
    /\ UNCHANGED <<adapterVars, lookupVars, renderVars>>

\* step 3: the wrapper stores the value and returns it.
StoreStep(t) ==
    /\ pc[t] = "computed"
    /\ cache' = cache_store(cache, Return(local[t]))
    /\ pc' = [pc EXCEPT ![t] = "idle"]
    /\ local' = [local EXCEPT ![t] = NoEngine]
    /\ last' = [op |-> "get_default", hit |-> FALSE,
                setting |-> "none", result |-> Return(local[t])]
    /\ UNCHANGED <<engines, notified>>
    /\ UNCHANGED <<adapterVars, lookupVars, renderVars>>

----------------------------------------------------------------------------
(* Jinja2.__init__: the resolution of the OPTIONS *)

\* Template names and extensions are strings, held as sequences of characters.
DotJinja == <<".", "j", "i", "n", "j", "a">>

DotJ2 == <<".", "j", "2">>

\* An option's value: not given, None, a string, or another object (a class,
\* a callable).  v holds a string as a sequence: the dot-separated segments
\* of a dotted path ('' is <<"">>, '.rel' is <<"", "rel">>), the characters
\* of a suffix, the whole string for a regular expression or a directory
\* name; it holds the name of an object as <<name>>.
Absent == [form |-> "absent", v |-> <<>>]

PyNone == [form |-> "none", v |-> <<>>]

Str(s) == [form |-> "str", v |-> s]

Obj(o) == [form |-> "obj", v |-> <<o>>]

\* The object, or the undivided string, an option value holds.
Name(value) == value.v[1]

\* '.'.join(segments)
RECURSIVE dotted(_)
dotted(name) ==
    IF Len(name) = 0 THEN ""
    ELSE IF Len(name) = 1 THEN name[1]
    ELSE name[1] \o "." \o dotted(Tail(name))

\* The modules the import system of the host process can find.  A package's
\* module never binds a submodule by itself.
FindableModules ==
    { <<"jinja2">>, <<"myapp">>, <<"myapp", "jinja">>, <<"myapp", "context">>,
      <<"django">>, <<"django", "utils">>, <<"django", "utils", "translation">> }

\* sys.modules once this file is imported (lines 14-37).
StartModules ==
    { <<"jinja2">>, <<"django">>, <<"django", "utils">>,
      <<"django", "utils", "translation">> }

\* What the body of each module binds: attribute name to object.
AttrsOf(module) ==
    CASE module = <<"jinja2">> ->
            ("Environment" :> "Environment" @@ "Undefined" :> "Undefined"
             @@ "DebugUndefined" :> "DebugUndefined"
             @@ "StrictUndefined" :> "StrictUndefined")
      [] module = <<"myapp", "jinja">> ->
            ("Environment" :> "MyEnvironment" @@ "shout" :> "shout")
      [] module = <<"myapp", "context">> ->
            ("first" :> "first" @@ "second" :> "second" @@ "user" :> "user")
      [] module = <<"django", "utils", "translation">> ->
            ("gettext" :> "gettext" @@ "ngettext" :> "ngettext")
      [] OTHER -> <<>>

\* The classes that build an environment from the options.
EnvironmentClasses == {"Environment", "MyEnvironment"}

ModuleAt(name) == "module " \o dotted(name)

\* The outcome of a resolution: the object or the exception, and sys.modules
\* after it.
Resolved(o, modules) == [ok |-> TRUE, obj |-> o, exc |-> "none", modules |-> modules]

Unresolved(e, modules) ==
    [ok |-> FALSE, obj |-> "unresolved", exc |-> e, modules |-> modules]

\* The packages and the module that importing name loads, parents first,
\* up to the first one that cannot be found.
Loaded(name) ==
    { SubSeq(name, 1, k) : k \in { k \in 1..Len(name) :
          \A j \in 1..k : SubSeq(name, 1, j) \in FindableModules } }

\* importlib.import_module(name) without a package: a value that is no
\* string has no startswith, a name with a leading dot is relative, the
\* empty name is refused, and a name is imported parent by parent.
import_module(value, modules) ==
    IF value.form # "str" THEN Unresolved("AttributeError", modules)
    ELSE IF value.v = <<"">> THEN Unresolved("ValueError", modules)
    ELSE IF value.v[1] = "" THEN Unresolved("TypeError", modules)
    ELSE IF value.v \in Loaded(value.v)
    THEN Resolved(ModuleAt(value.v), modules \cup Loaded(value.v))
    ELSE Unresolved("ModuleNotFoundError", modules \cup Loaded(value.v))

\* getattr(module, attr): what the module's body binds, or a submodule that
\* has been imported.
getattr(module, attr, modules) ==
    IF attr \in DOMAIN AttrsOf(module) THEN Resolved(AttrsOf(module)[attr], modules)
    ELSE IF Append(module, attr) \in modules
    THEN Resolved(ModuleAt(Append(module, attr)), modules)
    ELSE Unresolved("AttributeError", modules)

\* import_string's except AttributeError: it is raised again as ImportError.
reraise_ImportError(attr) ==
    IF attr.ok THEN attr ELSE Unresolved("ImportError", attr.modules)

\* import_string after the split: the exceptions of import_module are not
\* caught, the attribute is read from the module.
getattr_imported(module, module_path, class_name) ==
    IF ~module.ok THEN module
    ELSE reraise_ImportError(getattr(module_path, class_name, module.modules))

\* django.utils.module_loading.import_string(dotted_path): rsplit on the
\* last dot (a value that is no string has no rsplit: AttributeError, not
\* caught; no dot: ImportError), import_module of the module part, getattr
\* of the rest.
import_string(value, modules) ==
    IF value.form # "str" THEN Unresolved("AttributeError", modules)
    ELSE IF Len(value.v) < 2 THEN Unresolved("ImportError", modules)
    ELSE getattr_imported(import_module(Str(SubSeq(value.v, 1, Len(value.v) - 1)), modules),
                          SubSeq(value.v, 1, Len(value.v) - 1), value.v[Len(value.v)])

\* jinja2's install_gettext_translations(translation): it reads gettext
\* and ngettext from the module it is given.
install_gettext_translations(translation) ==
    IF {"gettext", "ngettext"} \subseteq DOMAIN AttrsOf(translation)
    THEN [ok |-> TRUE, exc |-> "none"]
    ELSE [ok |-> FALSE, exc |-> "AttributeError"]

\* load_class reports a failed resolution as a configuration error.
raise_ImproperlyConfigured(r) ==
    IF r.ok THEN r ELSE Unresolved("ImproperlyConfigured", r.modules)

\* django_jinja.utils.load_class: the class a dotted path names, or a
\* configuration error.
load_class(value, modules) == raise_ImproperlyConfigured(import_string(value, modules))

BoolStr(b) == IF b THEN "True" ELSE "False"

\* options.pop(key, default)
pop(opt, default) == IF opt.form = "absent" THEN default ELSE opt

\* The names under which the OPTIONS register filters, tests, globals and
\* constants, in the order of the dicts.
ExtensionOrder == <<"shout">>

ExtensionNames == { ExtensionOrder[i] : i \in DOMAIN ExtensionOrder }

NoEntries == [n \in ExtensionNames |-> Absent]

Inserted(data, modules) == [ok |-> TRUE, exc |-> "none", data |-> data, modules |-> modules]

NotInserted(exc, data, modules) ==
    [ok |-> FALSE, exc |-> exc, data |-> data, modules |-> modules]

\* insert, once import_string has returned or raised.
insert_imported(data, name, imported) ==
    IF imported.ok THEN Inserted([data EXCEPT ![name] = Obj(imported.obj)], imported.modules)
    ELSE NotInserted(imported.exc, data, imported.modules)

\* _initialize_builtins.insert(data, name, value): a string is imported,
\* anything else is stored as it is.  A name the dict does not hold is not
\* visited.
insert(data, name, value, modules) ==
    IF value.form = "absent" THEN Inserted(data, modules)
    ELSE IF value.form = "str" THEN insert_imported(data, name, import_string(value, modules))
    ELSE Inserted([data EXCEPT ![name] = value], modules)

\* One loop of _initialize_builtins from its k-th entry on: the first insert
\* that raises ends it.
RECURSIVE insert_all(_, _, _, _)
RECURSIVE insert_next(_, _, _)
insert_next(entries, k, inserted) ==
    IF inserted.ok THEN insert_all(inserted.data, entries, k, inserted.modules)
    ELSE inserted

insert_all(data, entries, k, modules) ==
    IF k > Len(ExtensionOrder) THEN Inserted(data, modules)
    ELSE insert_next(entries, k + 1,
                     insert(data, ExtensionOrder[k], entries[ExtensionOrder[k]], modules))

\* constants are stored as they are, strings included.
insert_constants(data, entries) ==
    [n \in ExtensionNames |->
        IF entries[n].form = "absent" THEN data[n] ELSE entries[n]]

NoEnv ==
    [cls |-> "none", undefined |-> "none", loader |-> "none", extensions |-> "none",
     auto_reload |-> "none", autoescape |-> "none", translations |-> "none",
     filters |-> NoEntries, tests |-> NoEntries, globals |-> NoEntries,
     thirdparty |-> "none", bytecode_cache |-> "none"]

\* The keyword arguments of environment_cls(**options), line 157.
NoOptions ==
    [undefined |-> "none", loader |-> "none", extensions |-> "none",
     auto_reload |-> "none", autoescape |-> "none"]

\* environment_cls(**options), line 157: only an environment class takes
\* these keyword arguments; a module is not callable, and a function or
\* another class refuses them.
environment_factory(cls) ==
    IF cls \in EnvironmentClasses THEN [ok |-> TRUE, exc |-> "none"]
    ELSE [ok |-> FALSE, exc |-> "TypeError"]

\* django_jinja.base._initialize_thirdparty(env), line 175: it is handed the
\* environment after the builtins are installed.
initialize_thirdparty(env) == [env EXCEPT !.thirdparty = "initialized"]

\* django_jinja.base._initialize_bytecode_cache(env), line 176.
initialize_bytecode_cache(env) == [env EXCEPT !.bytecode_cache = "initialized"]

NoAdapter ==
    [app_dirname |-> "none", env |-> NoEnv, context_processors_paths |-> <<>>,
     match_regex |-> Absent, match_extension |-> Absent, tmpl_debug |-> "none"]

Failed(exc, at, modules) ==
    [ok |-> FALSE, exc |-> exc, at |-> at, options |-> NoOptions, adapter |-> NoAdapter,
     modules |-> modules]

\* The default for settings.DEBUG, whatever the caller supplied.
undefined_option_default(undefined, st, modules) ==
    IF st.DEBUG THEN Resolved("DebugUndefined", modules) ELSE Resolved("Undefined", modules)

\* options["undefined"] after lines 138-148: the caller's value, a string
\* loaded as a class, else the default for settings.DEBUG.
undefined_option(undefined, st, modules) ==
    IF undefined.form \in {"absent", "none"}
    THEN IF st.DEBUG THEN Resolved("DebugUndefined", modules)
         ELSE Resolved("Undefined", modules)
    ELSE IF undefined.form = "str"
    THEN load_class(undefined, modules)
    ELSE Resolved(Name(undefined), modules)

\* Lines 197-199 and 175-176, and what the constructor leaves: the adapter.
init_done(params, options, env, globals) ==
    IF ~globals.ok THEN Failed(globals.exc, "globals", globals.modules)
    ELSE [ok |-> TRUE, exc |-> "none", at |-> "none", options |-> options,
          adapter |->
              [app_dirname |-> Name(pop(params.app_dirname, Str(<<"templates">>))),
               env |-> initialize_bytecode_cache(initialize_thirdparty(
                           [env EXCEPT !.globals = insert_constants(globals.data,
                                                                    params.constants)])),
               context_processors_paths |-> params.context_processors,
               match_regex |-> pop(params.match_regex, PyNone),
               match_extension |-> pop(params.match_extension, Str(DotJinja)),
               tmpl_debug |-> Name(pop(params.debug, Obj("False")))],
          modules |-> globals.modules]

\* Lines 193-195: the loop over the globals, after the one over the tests.
init_globals(params, options, env, tests) ==
    IF ~tests.ok THEN Failed(tests.exc, "tests", tests.modules)
    ELSE init_done(params, options, [env EXCEPT !.tests = tests.data],
                   insert_all(NoEntries, params.globals, 1, tests.modules))

\* Lines 189-191: the loop over the tests, after the one over the filters.
init_tests(params, options, env, filters) ==
    IF ~filters.ok THEN Failed(filters.exc, "filters", filters.modules)
    ELSE init_globals(params, options, [env EXCEPT !.filters = filters.data],
                      insert_all(NoEntries, params.tests, 1, filters.modules))

\* Lines 164-168, then the loop over the filters: translation is what
\* import_module gave under USE_I18N, the environment's import otherwise.
init_i18n(params, st, options, env, translation_engine, translation) ==
    IF st.USE_I18N /\ ~translation.ok
    THEN Failed(translation.exc, "translation_engine", translation.modules)
    ELSE IF st.USE_I18N /\ ~install_gettext_translations(translation_engine.v).ok
    THEN Failed(install_gettext_translations(translation_engine.v).exc,
                "install_gettext_translations", translation.modules)
    ELSE init_tests(params, options,
                    [env EXCEPT !.translations =
                        IF st.USE_I18N
                        THEN "gettext:" \o translation.obj \o ":"
                             \o Name(pop(params.newstyle_gettext, Obj("True")))
                        ELSE "null:" \o Name(pop(params.newstyle_gettext, Obj("True")))],
                    insert_all(NoEntries, params.filters, 1, translation.modules))

\* self.env = environment_cls(**options), line 157.
new_environment(cls, options) ==
    [cls |-> cls, undefined |-> options.undefined, loader |-> options.loader,
     extensions |-> options.extensions, auto_reload |-> options.auto_reload,
     autoescape |-> options.autoescape, translations |-> "none",
     filters |-> NoEntries, tests |-> NoEntries, globals |-> NoEntries,
     thirdparty |-> "none", bytecode_cache |-> "none"]

\* Lines 152-165: the environment is created from the options, and the
\* translation engine is imported under USE_I18N.
init_env(params, st, options, environment_cls) ==
    IF ~environment_cls.ok
    THEN Failed(environment_cls.exc, "environment", environment_cls.modules)
    ELSE IF ~environment_factory(environment_cls.obj).ok
    THEN Failed(environment_factory(environment_cls.obj).exc, "environment_cls",
                environment_cls.modules)
    ELSE init_i18n(params, st, options, new_environment(environment_cls.obj, options),
                   pop(params.translation_engine, Str(<<"django", "utils", "translation">>)),
                   IF st.USE_I18N
                   THEN import_module(pop(params.translation_engine,
                                          Str(<<"django", "utils", "translation">>)),
                                      environment_cls.modules)
                   ELSE environment_cls)

\* Lines 150-155: the environment class is imported, the defaults of the
\* remaining options are set.
init_options(params, st, undefined) ==
    IF ~undefined.ok THEN Failed(undefined.exc, "undefined", undefined.modules)
    ELSE init_env(params, st,
                  [undefined |-> undefined.obj,
                   loader |-> Name(pop(params.loader, Obj("FileSystemLoader(template_dirs)"))),
                   extensions |-> Name(pop(params.extensions, Obj("DEFAULT_EXTENSIONS"))),
                   auto_reload |-> Name(pop(params.auto_reload, Obj(BoolStr(st.DEBUG)))),
                   autoescape |-> Name(pop(params.autoescape, Obj("True")))],
                  import_string(pop(params.environment, Str(<<"jinja2", "Environment">>)),
                                undefined.modules))

\* Jinja2.__init__(params) under the host settings st and with sys.modules
\* as given: the adapter, or the first exception raised on the way, and
\* sys.modules afterwards.
Jinja2Init(params, st, modules) ==
    init_options(params, st, undefined_option(pop(params.undefined, PyNone), st, modules))

ProcessorPaths ==
    { <<"myapp", "context", "first">>, <<"myapp", "context", "second">>,
      <<"myapp", "context", "user">>, <<"myapp", "context", "missing">>,
      <<"nosuchpkg", "mod", "proc">> }

ProcessorLists == UNION { [1..n -> ProcessorPaths] : n \in 0..MaxProcessors }

DefaultParams ==
    [app_dirname |-> Absent, newstyle_gettext |-> Absent, context_processors |-> <<>>,
     match_extension |-> Absent, match_regex |-> Absent, environment |-> Absent,
     filters |-> NoEntries, tests |-> NoEntries, globals |-> NoEntries,
     constants |-> NoEntries, translation_engine |-> Absent, debug |-> Absent,
     undefined |-> Absent, loader |-> Absent, extensions |-> Absent,
     auto_reload |-> Absent, autoescape |-> Absent]

Entry(o) == [n \in ExtensionNames |-> o]

\* The params the construction is explored with.
ConstructParams ==
    { [DefaultParams EXCEPT !.undefined = u, !.environment = e, !.filters = Entry(f),
                            !.tests = Entry(t), !.globals = Entry(g),
                            !.constants = Entry(c), !.context_processors = cp,
                            !.auto_reload = ar, !.translation_engine = te] :
        u \in {Absent, PyNone, Str(<<"jinja2", "StrictUndefined">>),
               Str(<<"myapp", "jinja", "NoSuchUndefined">>), Obj("StrictUndefined"),
               Obj("Undefined")},
        e \in {Absent, Str(<<"myapp", "jinja", "Environment">>),
               Str(<<"myapp", "jinja", "NoSuchEnvironment">>), Str(<<"myapp", "jinja", "shout">>),
               Obj("MyEnvironment")},
        f \in {Absent, Str(<<"myapp", "jinja", "shout">>),
               Str(<<"myapp", "jinja", "no_such_filter">>), Str(<<"nosuchpkg", "mod", "f">>),
               Str(<<"myapp", "jinja">>)},
        t \in {Absent, Str(<<"myapp", "jinja", "no_such_test">>)},
        g \in {Absent, Obj("shout")},
        c \in {Absent, Str(<<"myapp", "jinja", "no_such_constant">>)},
        cp \in { l \in ProcessorLists :
                    \A i \in DOMAIN l : l[i] \in {<<"myapp", "context", "first">>,
                                                  <<"myapp", "context", "missing">>} },
        ar \in {Absent, Obj("False")},
        te \in {Absent, Str(<<"myapp", "no_such_translation">>),
                Str(<<"jinja2", "Environment">>)} }

NotBuilt == [state |-> "none", params |-> DefaultParams, exc |-> "none",
             at |-> "none", options |-> NoOptions, adapter |-> NoAdapter]

\* Jinja2(params): the whole constructor.
Construct(params) ==
    /\ built.state = "none"
    /\ LET r == Jinja2Init(params, settings, sys_modules)
       IN  /\ built' = [state |-> IF r.ok THEN "ok" ELSE "failed", params |-> params,
                        exc |-> r.exc, at |-> r.at, options |-> r.options,
                        adapter |-> r.adapter]
           /\ sys_modules' = r.modules
    /\ UNCHANGED settings
    /\ UNCHANGED <<regVars, lookupVars, renderVars>>

Settings == [DEBUG : BOOLEAN, USE_I18N : BOOLEAN]

----------------------------------------------------------------------------
(* Jinja2.match_template, get_template, from_string *)

HomeJinja == <<"h">> \o DotJinja

BrokenJinja == <<"b">> \o DotJinja

GoneJinja == <<"g">> \o DotJinja

PageHtml == <<"p", ".", "h", "t", "m", "l">>

MailJ2 == <<"m">> \o DotJ2

TemplateNames == {HomeJinja, BrokenJinja, GoneJinja, PageHtml, MailJ2}

TemplateSources == {"Hello {{ a }} {{ csrf_token }}", "{% if %}"}

\* str.endswith
endswith(s, suffix) ==
    /\ Len(s) >= Len(suffix)
    /\ SubSeq(s, Len(s) - Len(suffix) + 1, Len(s)) = suffix

\* The regular expressions the adapters are configured with, and re.match
\* of each against a name.
RegexJ2 == ".*\\.j2$"

RegexMail == "m.*"

re_match(regex, name) ==
    CASE regex = RegexJ2 -> endswith(name, DotJ2)
      [] regex = RegexMail -> Len(name) >= 1 /\ name[1] = "m"
      [] OTHER -> FALSE

\* django_jinja.base.match_template(template_name, regex=..., extension=...)
base_match_template(template_name, regex, extension) ==
    IF regex.form = "str"
    THEN re_match(Name(regex), template_name)
    ELSE endswith(template_name, extension.v)

\* Jinja2.match_template
match_template(adapter, template_name) ==
    base_match_template(template_name, adapter.match_regex, adapter.match_extension)

\* What the environment's loader holds under each name.
LoaderEntry(name) ==
    CASE name = HomeJinja -> "compiles"
      [] name = BrokenJinja -> "syntax error"
      [] name = PageHtml -> "compiles"
      [] name = MailJ2 -> "compiles"
      [] OTHER -> "missing"

CompiledName(name) ==
    CASE name = HomeJinja -> "template:h.jinja"
      [] name = PageHtml -> "template:p.html"
      [] name = MailJ2 -> "template:m.j2"
      [] OTHER -> "none"

NoHandle == [template |-> "none", _debug |-> "none"]

\* What a lookup gives its caller.  invoked: whether the call reached the
\* jinja2 environment; native: the exception jinja2 raised inside, if any.
Found(t, d) ==
    [outcome |-> "return", exc |-> "none", invoked |-> TRUE, native |-> "none",
     handle |-> [template |-> t, _debug |-> d]]

Raised(e, inv, nat) ==
    [outcome |-> "raise", exc |-> e, invoked |-> inv, native |-> nat, handle |-> NoHandle]

\* jinja2.Environment.get_template
env_get_template(name) ==
    IF LoaderEntry(name) = "compiles" THEN Found(CompiledName(name), "False")
    ELSE IF LoaderEntry(name) = "missing"
    THEN Raised("jinja2.TemplateNotFound", TRUE, "jinja2.TemplateNotFound")
    ELSE Raised("jinja2.TemplateSyntaxError", TRUE, "jinja2.TemplateSyntaxError")

\* jinja2.Environment.from_string
env_from_string(code) ==
    IF code = "{% if %}"
    THEN Raised("jinja2.TemplateSyntaxError", TRUE, "jinja2.TemplateSyntaxError")
    ELSE Found("template:<string>", "False")

\* get_template without the match_template test.
get_template_result_unmatched(adapter, template_name) ==
    LET r == env_get_template(template_name)
    IN  IF r.outcome = "return" THEN Found(r.handle.template, adapter.tmpl_debug)
        ELSE IF r.exc = "jinja2.TemplateNotFound"
        THEN Raised("django.TemplateDoesNotExist", TRUE, r.native)
        ELSE Raised("django.TemplateSyntaxError", TRUE, r.native)

\* Jinja2.get_template(template_name)
get_template_result(adapter, template_name) ==
    IF ~match_template(adapter, template_name)
    THEN Raised("django.TemplateDoesNotExist", FALSE, "none")
    ELSE LET r == env_get_template(template_name)
         IN  IF r.outcome = "return" THEN Found(r.handle.template, adapter.tmpl_debug)
             ELSE IF r.exc = "jinja2.TemplateNotFound"
             THEN Raised("django.TemplateDoesNotExist", TRUE, r.native)
             ELSE Raised("django.TemplateSyntaxError", TRUE, r.native)

\* Jinja2.from_string(template_code): no try/except around the environment.
from_string_result(adapter, template_code) == env_from_string(template_code)

NotLooked ==
    [op |-> "none", name |-> <<>>, code |-> "",
     result |-> Raised("none", FALSE, "none")]

get_template(template_name) ==
    /\ built.state = "ok"
    /\ rpc = "idle"
    /\ looked' = [op |-> "get_template", name |-> template_name, code |-> "",
                  result |-> get_template_result(built.adapter, template_name)]
    /\ UNCHANGED adapterVars
    /\ UNCHANGED regVars
    /\ UNCHANGED renderVars

from_string(template_code) ==
    /\ built.state = "ok"
    /\ rpc = "idle"
    /\ looked' = [op |-> "from_string", name |-> <<>>, code |-> template_code,
                  result |-> from_string_result(built.adapter, template_code)]
    /\ UNCHANGED adapterVars
    /\ UNCHANGED regVars
    /\ UNCHANGED renderVars

----------------------------------------------------------------------------
(* Template.render: the assembly of the render context *)

\* A context is a dict over these keys; NoValue marks a key the dict lacks.
Keys == {"a", "request", "csrf_token"}

NoValue == "<absent>"

\* The request object and the SimpleLazyObject, as values of a context.
TheRequest == "<request>"

TheLazyToken == "<SimpleLazyObject>"

EmptyDict == [k \in Keys |-> NoValue]

\* dict.update(other): other's keys win.
update(d, other) == [k \in Keys |-> IF other[k] # NoValue THEN other[k] ELSE d[k]]

\* The contexts a caller passes: None, or a dict of the caller's.
NoContext == [passed |-> FALSE, dict |-> EmptyDict]

CallerContexts ==
    { NoContext,
      [passed |-> TRUE, dict |-> EmptyDict],
      [passed |-> TRUE, dict |-> [EmptyDict EXCEPT !["a"] = "0"]],
      [passed |-> TRUE, dict |-> [k \in Keys |-> "mine"]] }

\* What get_token(request) gives: None, text, or bytes.
NoToken == [form |-> "none", v |-> ""]

Text(s) == [form |-> "text", v |-> s]

Bytes(s) == [form |-> "bytes", v |-> s]

NoRequest == [present |-> FALSE, token |-> NoToken]

Requests ==
    { NoRequest } \cup
    { [present |-> TRUE, token |-> t] : t \in {NoToken, Text("tok"), Bytes("tok")} }

\* django.middleware.csrf.get_token
get_token(req) == req.token

\* django.utils.encoding.smart_text
smart_text(s) == Text(s.v)

\* render._get_val
get_val(req) ==
    LET token == get_token(req)
    IN  IF token.form = "none" THEN Text("NOTPROVIDED") ELSE smart_text(token)

NoLazy == [state |-> "none", value |-> NoToken]

\* A SimpleLazyObject whose function runs at once, when it is made.
SimpleLazyObject_eager(req) ==
    [lazy |-> [state |-> "evaluated", value |-> get_val(req)], calls |-> 1]

\* SimpleLazyObject(_get_val): nothing is called yet.
SimpleLazyObject(req) == [lazy |-> [state |-> "pending", value |-> NoToken], calls |-> 0]

\* A read of the SimpleLazyObject: the first one calls _get_val and keeps
\* what it returns.
read_lazy(lz, req) ==
    IF lz.state = "pending"
    THEN [lazy |-> [state |-> "evaluated", value |-> get_val(req)], calls |-> 1]
    ELSE [lazy |-> lz, calls |-> 0]

\* The dict a context processor returns for a request.
processor_result(processor, req) ==
    CASE processor = "first" -> [EmptyDict EXCEPT !["a"] = "1"]
      [] processor = "second" -> [EmptyDict EXCEPT !["a"] = "2"]
      [] processor = "user" ->
            [EmptyDict EXCEPT !["request"] = "shadow", !["csrf_token"] = "fixed"]
      [] OTHER -> EmptyDict

\* Jinja2.context_processors: the tuple of the imported processors; the
\* import of the first unresolvable path raises.
RECURSIVE import_each(_, _, _, _)
RECURSIVE import_next(_, _, _, _)
import_next(paths, k, value, imported) ==
    IF imported.ok
    THEN import_each(paths, k, Append(value, imported.obj), imported.modules)
    ELSE [ok |-> FALSE, value |-> <<>>, exc |-> imported.exc, modules |-> imported.modules]

import_each(paths, k, value, modules) ==
    IF k > Len(paths)
    THEN [ok |-> TRUE, value |-> value, exc |-> "none", modules |-> modules]
    ELSE import_next(paths, k + 1, value, import_string(Str(paths[k]), modules))

context_processors(adapter, modules) ==
    import_each(adapter.context_processors_paths, 1, <<>>, modules)

NotCached == [set |-> FALSE, value |-> <<>>]

\* A processor's dict merged under the context: keys already there are kept.
merge_processor_keep(d, processor, req) ==
    update(processor_result(processor, req), d)

\* context.update(processor(request))
merge_processor(d, processor, req) ==
    update(d, processor_result(processor, req))

\* Which dict render writes to: the caller's own object when one is passed,
\* a new one for None.
context_object(ctx) == IF ctx.passed THEN "caller's" ELSE "new"

\* Lines 47-59: the context is bound, request and csrf_token are set.
RenderEnter(ctx, req) ==
    /\ rpc \in {"idle", "returned", "raised"}
    /\ looked.result.outcome = "return"
    /\ LET lz == IF req.present THEN SimpleLazyObject(req)
                 ELSE [lazy |-> NoLazy, calls |-> 0]
           d == IF req.present
                THEN [ctx.dict EXCEPT !["request"] = TheRequest,
                                      !["csrf_token"] = TheLazyToken]
                ELSE ctx.dict
       IN  /\ given' = ctx
           /\ request' = req
           /\ writes' = context_object(ctx)
           /\ context' = d
           /\ callerDict' = IF context_object(ctx) = "caller's" THEN d ELSE ctx.dict
           /\ lazy' = lz.lazy
           /\ tokenCalls' = lz.calls
    /\ lazyReads' = 0
    /\ idx' = 0
    /\ handed' = EmptyDict
    /\ signalled' = FALSE
    /\ rerr' = "none"
    /\ rpc' = IF req.present THEN "processors" ELSE "dispatch"
    /\ UNCHANGED <<adapterVars, looked, cpCache>>
    /\ UNCHANGED regVars

\* Line 62, the start of the loop: self.backend.context_processors is
\* computed on its first use and kept on the adapter.
ResolveProcessors ==
    /\ rpc = "processors"
    /\ idx = 0
    /\ LET r == IF cpCache.set
                THEN [ok |-> TRUE, value |-> cpCache.value, exc |-> "none",
                      modules |-> sys_modules]
                ELSE context_processors(built.adapter, sys_modules)
       IN  /\ sys_modules' = r.modules
           /\ IF r.ok
              THEN /\ cpCache' = [set |-> TRUE, value |-> r.value]
                   /\ idx' = 1
                   /\ UNCHANGED <<rpc, rerr>>
              ELSE /\ rpc' = "raised"
                   /\ rerr' = r.exc
                   /\ UNCHANGED <<cpCache, idx>>
    /\ UNCHANGED <<given, request, writes, context, callerDict, lazy, tokenCalls,
                   lazyReads, handed, signalled>>
    /\ UNCHANGED <<settings, built, looked>>
    /\ UNCHANGED regVars

\* Lines 62-63, one turn of the loop.
RunProcessor ==
    /\ rpc = "processors"
    /\ idx >= 1
    /\ idx <= Len(cpCache.value)
    /\ context' = merge_processor(context, cpCache.value[idx], request)
    /\ callerDict' = IF writes = "caller's" THEN context' ELSE callerDict
    /\ idx' = idx + 1
    /\ UNCHANGED <<given, request, writes, lazy, tokenCalls, lazyReads, handed,
                   signalled, rerr, rpc, cpCache>>
    /\ UNCHANGED <<adapterVars, looked>>
    /\ UNCHANGED regVars

\* The loop ends.
ProcessorsDone ==
    /\ rpc = "processors"
    /\ idx = Len(cpCache.value) + 1
    /\ rpc' = "dispatch"
    /\ UNCHANGED <<given, request, writes, context, callerDict, lazy, tokenCalls,
                   lazyReads, idx, handed, signalled, rerr, cpCache>>
    /\ UNCHANGED <<adapterVars, looked>>
    /\ UNCHANGED regVars

\* Lines 65-86: with _debug the context is copied into a CompatibilityContext
\* and template_rendered is sent; the context goes to the jinja2 template.
Dispatch ==
    /\ rpc = "dispatch"
    /\ signalled' = (looked.result.handle._debug = "True")
    /\ handed' = context
    /\ rpc' = "template"
    /\ UNCHANGED <<given, request, writes, context, callerDict, lazy, tokenCalls,
                   lazyReads, idx, rerr, cpCache>>
    /\ UNCHANGED <<adapterVars, looked>>
    /\ UNCHANGED regVars

\* The jinja2 template, while it renders, reads csrf_token from the context
\* it was handed and finds the SimpleLazyObject there.
TemplateReadsToken ==
    /\ rpc = "template"
    /\ handed["csrf_token"] = TheLazyToken
    /\ lazyReads < MaxReads
    /\ LET r == read_lazy(lazy, request)
       IN  /\ lazy' = r.lazy
           /\ tokenCalls' = tokenCalls + r.calls
    /\ lazyReads' = lazyReads + 1
    /\ UNCHANGED <<given, request, writes, context, callerDict, idx, handed,
                   signalled, rerr, rpc, cpCache>>
    /\ UNCHANGED <<adapterVars, looked>>
    /\ UNCHANGED regVars

\* self.template.render(context) returns and render returns its string.
RenderReturn ==
    /\ rpc = "template"
    /\ rpc' = "returned"
    /\ UNCHANGED <<given, request, writes, context, callerDict, lazy, tokenCalls,
                   lazyReads, idx, handed, signalled, rerr, cpCache>>
    /\ UNCHANGED <<adapterVars, looked>>
    /\ UNCHANGED regVars

----------------------------------------------------------------------------
(* Specifications *)

RegInit ==
    /\ engines \in EngineLists
    /\ cache = EmptyCache
    /\ last = [op |-> "init", hit |-> FALSE, setting |-> "none", result |-> NoResult]
    /\ pc = [t \in Threads |-> "idle"]
    /\ local = [t \in Threads |-> NoEngine]
    /\ notified = TRUE

RegIdle ==
    /\ engines = <<>>
    /\ cache = EmptyCache
    /\ last = [op |-> "init", hit |-> FALSE, setting |-> "none", result |-> NoResult]
    /\ pc = [t \in Threads |-> "idle"]
    /\ local = [t \in Threads |-> NoEngine]
    /\ notified = TRUE

RenderIdle ==
    /\ cpCache = NotCached
    /\ looked = NotLooked
    /\ rpc = "idle"
    /\ given = NoContext
    /\ request = NoRequest
    /\ writes = "new"
    /\ context = EmptyDict
    /\ callerDict = EmptyDict
    /\ lazy = NoLazy
    /\ tokenCalls = 0
    /\ lazyReads = 0
    /\ idx = 0
    /\ handed = EmptyDict
    /\ signalled = FALSE
    /\ rerr = "none"

AdapterIdle ==
    /\ settings = [DEBUG |-> FALSE, USE_I18N |-> TRUE]
    /\ sys_modules = StartModules
    /\ built = NotBuilt
    /\ RenderIdle

Init ==
    /\ RegInit
    /\ AdapterIdle

Next ==
    \/ get_default
    \/ \E s \in SettingNames : setting_changed(s)
    \/ \E es \in EngineLists : ConfigureEngines(es)

\* The registry, one call at a time.
Spec == Init /\ [][Next]_vars

NextRace ==
    \/ \E t \in Threads : LookupStep(t)
    \/ \E t \in Threads : BodyStep(t)
    \/ \E t \in Threads : StoreStep(t)
    \/ \E s \in SettingNames : setting_changed(s)
    \/ \E es \in EngineLists : ConfigureEngines(es)

\* The registry with get_default calls of several threads interleaved.
SpecRace == Init /\ [][NextRace]_vars

InitConstruct ==
    /\ RegIdle
    /\ settings \in Settings
    /\ sys_modules = StartModules
    /\ built = NotBuilt
    /\ RenderIdle

NextConstruct ==
    /\ built.state = "none"
    /\ \E p \in ConstructParams : Construct(p)

\* The construction of an adapter from its params.
SpecConstruct == InitConstruct /\ [][NextConstruct]_vars

\* The params the lookups and the render calls are explored with.
AdapterParams ==
    { [DefaultParams EXCEPT !.context_processors = cp, !.debug = d] :
        cp \in ProcessorLists, d \in {Absent, Obj("True")} }
    \cup
    { [DefaultParams EXCEPT !.match_extension = x, !.match_regex = r] :
        x \in {Absent, Str(DotJ2)}, r \in {Absent, Str(<<RegexJ2>>), Str(<<RegexMail>>)} }
    \cup
    { [DefaultParams EXCEPT !.environment = Str(<<"myapp", "jinja", "NoSuchEnvironment">>)] }

InitAdapter ==
    /\ RegIdle
    /\ AdapterIdle

NextAdapter ==
    \/ /\ built.state = "none"
       /\ \E p \in AdapterParams : Construct(p)
    \/ \E n \in TemplateNames : get_template(n)
    \/ \E c \in TemplateSources : from_string(c)
    \/ \E ctx \in CallerContexts, req \in Requests : RenderEnter(ctx, req)
    \/ ResolveProcessors
    \/ RunProcessor
    \/ ProcessorsDone
    \/ Dispatch
    \/ TemplateReadsToken
    \/ RenderReturn

\* An adapter is constructed, templates are looked up, one is rendered.
SpecAdapter == InitAdapter /\ [][NextAdapter]_vars

----------------------------------------------------------------------------
(* Claims about the engine registry *)

JinjaPositions(es) ==
    { i \in DOMAIN es : es[i].cls \in {"Jinja2", "Jinja2Subclass"} }

C1_Step ==
    /\ (last'.op = "get_default" /\ cache.full) =>
           /\ last'.result = Return(cache.value)
           /\ cache' = cache
    /\ (last'.op = "get_default" /\ ~cache.full) =>
           /\ last'.result = get_default_body(engines)
           /\ last'.result.kind = "return" =>
                  cache' = [full |-> TRUE, value |-> last'.result.value]
           /\ last'.result.kind = "raise" => cache' = EmptyCache
    /\ (last'.op = "setting_changed" /\ last'.setting = "TEMPLATES") =>
           cache' = EmptyCache
    /\ (last'.op = "setting_changed" /\ last'.setting # "TEMPLATES") =>
           cache' = cache
    /\ last'.op = "configure" => cache' = cache

\* C1: get_default memoizes its successful result.  A call that finds the
\* cache filled returns the cached engine and leaves the cache alone, whatever
\* engines.all() holds by then; a TEMPLATES notification empties the cache, so
\* the next call runs the body on the engines configured at that moment and
\* stores what it returns; a notification for any other setting and a change
\* of the engines leave the cache as it is; a raising call stores nothing.
C1_Memoized == [][C1_Step]_vars

\* A cached engine is returned although the engines changed since (no
\* TEMPLATES notification arrived) and the body would answer otherwise now.
C1_Witness ==
    /\ last.op = "get_default"
    /\ last.hit
    /\ ~notified
    /\ last.result # get_default_body(engines)

C2_Step ==
    (last'.op = "get_default" /\ ~cache.full) =>
        LET J == JinjaPositions(engines)
            r == last'.result
        IN  /\ Cardinality(J) = 1 =>
                   /\ r.kind = "return"
                   /\ \E i \in J : r.value = engines[i]
            /\ Cardinality(J) # 1 =>
                   /\ r.kind = "raise"
                   /\ r.exc = "ImproperlyConfigured"
                   /\ r.value = NoEngine
            /\ \A es \in EngineLists :
                   SelectSeq(es, isinstance_Jinja2) = SelectSeq(engines, isinstance_Jinja2)
                       => get_default_body(es) = r

\* C2: a get_default call that runs the body returns the one configured
\* engine that is an instance of Jinja2 when there is exactly one, and raises
\* ImproperlyConfigured when there is none or when there are several; any
\* other list of engines with the same Jinja2 instances gives the same outcome.
C2_ExactlyOne == [][C2_Step]_vars

\* The body ran on two Jinja2 instances beside each other and raised.
C2_Witness ==
    /\ last.op = "get_default"
    /\ ~last.hit
    /\ last.result.kind = "raise"
    /\ Cardinality(JinjaPositions(engines)) = 2
    /\ ~notified

\* C10: once the TEMPLATES receiver has run after the last change of the
\* engines, the cache holds no engine other than the one the body returns for
\* the engines now configured, and a call that finds the cache filled returns
\* that engine.
C10_NoStaleAfterInvalidation ==
    notified =>
        /\ cache.full => Return(cache.value) = get_default_body(engines)
        /\ (last.op = "get_default" /\ last.hit) =>
               last.result = get_default_body(engines)
----------------------------------------------------------------------------
(* Claims about Template.render *)

\* C3: when a render call has returned, the dict the caller passed holds the
\* keys and values it held when render was called.
C3_CallerContextUntouched ==
    (rpc = "returned" /\ given.passed) => callerDict = given.dict

\* The dict the processor configured under a path returns.
ReturnedBy(path, req) ==
    processor_result(import_string(Str(path), FindableModules).obj, req)

\* The positions, in the configured order, of the processors returning key k.
Returning(paths, k, req) ==
    { i \in DOMAIN paths : ReturnedBy(paths[i], req)[k] # NoValue }

LastOf(S) == CHOOSE i \in S : \A j \in S : j <= i

\* C4: the context handed to the jinja2 template.  With a request, each key
\* holds the value of the last configured processor that returned the key;
\* when none did, request holds the request and csrf_token the lazy token;
\* any other key holds the caller's value.  Without a request the context is
\* the caller's.  Processors returning a = 1 and then a = 2 leave a = 2.
C4_ContextOverlay ==
    rpc \in {"template", "returned"} =>
        LET paths == built.adapter.context_processors_paths
        IN  /\ \A k \in Keys :
                   handed[k] =
                       IF ~request.present THEN given.dict[k]
                       ELSE IF Returning(paths, k, request) # {}
                       THEN ReturnedBy(paths[LastOf(Returning(paths, k, request))],
                                       request)[k]
                       ELSE IF k = "request" THEN TheRequest
                       ELSE IF k = "csrf_token" THEN TheLazyToken
                       ELSE given.dict[k]
            /\ (request.present
                /\ paths = << <<"myapp", "context", "first">>,
                             <<"myapp", "context", "second">> >>)
                   => handed["a"] = "2"

\* Two processors returned a, the later one's value reached the template
\* over the caller's own a; another run had a processor replace request.
C4_Witness ==
    /\ rpc = "returned"
    /\ request.present
    /\ built.adapter.context_processors_paths =
           << <<"myapp", "context", "second">>, <<"myapp", "context", "first">> >>
    /\ given.dict["a"] = "0"
    /\ handed["a"] = "1"
    /\ handed["request"] = TheRequest

\* C5: get_token is called by no step before the first read of csrf_token,
\* by the first read once, and by no later read; the value read is the text
\* NOTPROVIDED when get_token returns None and the token as text otherwise.
C5_LazyToken ==
    /\ tokenCalls = IF lazyReads > 0 THEN 1 ELSE 0
    /\ (rpc \in {"processors", "dispatch"} /\ request.present) => lazy.state = "pending"
    /\ lazyReads > 0 => lazy.state = "evaluated"
    /\ lazy.state = "evaluated" =>
           lazy.value = IF request.token.form = "none"
                        THEN [form |-> "text", v |-> "NOTPROVIDED"]
                        ELSE [form |-> "text", v |-> request.token.v]
    /\ ~request.present => lazy.state = "none"

\* The template read csrf_token twice after processors ran; one call of
\* get_token was made and None became NOTPROVIDED.
C5_Witness ==
    /\ rpc = "returned"
    /\ lazyReads = 2
    /\ tokenCalls = 1
    /\ Len(cpCache.value) >= 1
    /\ request.token.form = "none"
    /\ lazy.value.v = "NOTPROVIDED"

----------------------------------------------------------------------------
(* Claims about the lookups *)

\* C6: get_template of a name that fails match_template raises
\* TemplateDoesNotExist without a call of the environment's get_template;
\* the environment is reached for matching names alone.
C6_UnmatchedNeverCompiled ==
    looked.op = "get_template" =>
        LET matches == match_template(built.adapter, looked.name)
        IN  /\ ~matches =>
                   /\ looked.result.outcome = "raise"
                   /\ looked.result.exc = "django.TemplateDoesNotExist"
                   /\ ~looked.result.invoked
            /\ looked.result.invoked => matches

\* A name the loader holds, refused because it fails the match rule.
C6_Witness ==
    /\ looked.op = "get_template"
    /\ LoaderEntry(looked.name) = "compiles"
    /\ ~match_template(built.adapter, looked.name)
    /\ looked.result.exc = "django.TemplateDoesNotExist"
    /\ ~looked.result.invoked

\* C7: a syntax error of jinja2 reaches the caller of get_template and of
\* from_string as Django's TemplateSyntaxError, never as jinja2's own.
C7_SyntaxErrorsTranslated ==
    looked.result.native = "jinja2.TemplateSyntaxError" =>
        /\ looked.result.outcome = "raise"
        /\ looked.result.exc = "django.TemplateSyntaxError"

----------------------------------------------------------------------------
(* Claims about the construction *)

\* A dotted string that names nothing, whatever has been imported.
Dangling(value) == value.form = "str" /\ ~import_string(value, FindableModules).ok

\* The dotted references of the params that __init__ resolves itself.
ResolvedAtConstruction(p) ==
    /\ ~Dangling(p.undefined)
    /\ ~Dangling(p.environment)
    /\ (settings.USE_I18N /\ p.translation_engine.form = "str") =>
           import_module(p.translation_engine, FindableModules).ok
    /\ \A n \in ExtensionNames :
           /\ ~Dangling(p.filters[n])
           /\ ~Dangling(p.tests[n])
           /\ ~Dangling(p.globals[n])

\* Jinja2(params) raises when one of the references __init__ resolves is
\* unresolvable (the context_processors are not among them).
FailFastAtConstruction ==
    (built.state # "none" /\ ~ResolvedAtConstruction(built.params)) =>
        built.state = "failed"

\* C8: no adapter that Jinja2(params) returned raises a reference-resolution
\* error in a later render call: every dotted reference of its options was
\* resolved, or refused, by the constructor.
C8_NoResolutionErrorAtRender ==
    (built.state = "ok" /\ rpc = "raised") =>
        rerr \notin {"ImportError", "ModuleNotFoundError", "ImproperlyConfigured"}

\* The undefined class the environment gets when the caller supplies one.
SuppliedUndefined(u) ==
    IF u.form = "str" THEN load_class(u, FindableModules).obj ELSE Name(u)

\* C9 as stated: the undefined passed to the environment class is the
\* caller's, else DebugUndefined under DEBUG and the strict policy
\* (jinja2.StrictUndefined) otherwise.
C9_StrictByDefault ==
    built.state = "ok" =>
        built.options.undefined =
            IF built.params.undefined.form \in {"str", "obj"}
            THEN SuppliedUndefined(built.params.undefined)
            ELSE IF settings.DEBUG THEN "DebugUndefined" ELSE "StrictUndefined"

\* C9: the undefined passed to the environment class is the caller's value
\* (a string loaded as a class) when one is supplied; with none, or None, it is
\* jinja2.DebugUndefined when settings.DEBUG is set and jinja2.Undefined, the
\* lenient default of jinja2, otherwise.
C9_UndefinedPolicy ==
    built.state = "ok" =>
        built.options.undefined =
            IF built.params.undefined.form \in {"str", "obj"}
            THEN SuppliedUndefined(built.params.undefined)
            ELSE IF settings.DEBUG THEN "DebugUndefined" ELSE "Undefined"

\* No undefined was supplied, DEBUG is off, the environment got jinja2.Undefined.
C9_Witness ==
    /\ built.state = "ok"
    /\ built.params.undefined = Absent
    /\ ~settings.DEBUG
    /\ built.options.undefined = "Undefined"

====
